---- MODULE Spec2Model ----
(***************************************************************************)
(* The Ark tunnel manager (src/tools/ark_tunnel.py): ArkTunnel and main(). *)
(*                                                                         *)
(* Two threads share one ArkTunnel object: the main thread (main(),        *)
(* start_tunnels, test_services, the idle loop, the SIGINT handler and the *)
(* finally block, which both call stop_tunnels) and the daemon thread that *)
(* runs monitor_tunnels.  The forwarding processes are the environment:    *)
(* any of them may exit at any time.  One action is one step between two   *)
(* points at which the other thread, a signal or a process exit can be     *)
(* observed.                                                               *)
(***************************************************************************)
EXTENDS Integers, Sequences, FiniteSets, TLC

\* Bounds of the model.
MaxSpawns == 5     \* forwarding processes ever spawned (Popen calls)
MaxSignals == 1    \* SIGINTs delivered to the process

\* self.services: the keys in insertion order, and each key's "remote".
Services == <<8080, 8001, 8434>>
Remote(local_port) == local_port
NumServices == Len(Services)

Threads == {"main", "mon"}
Pids == 1..MaxSpawns

VARIABLES
  running,        \* self.running
  processes,      \* self.processes: the list of Popen objects (as pids)
  procPort,       \* per spawned process: the local port of its -L argument
  alive,          \* processes that have not exited (poll() is None)
  terminated,     \* processes the current stop_tunnels called terminate() on
  pc,             \* per thread: where it is
  ctPort,         \* create_tunnel's local_port, per calling thread
  ctPid,          \* create_tunnel's process, per calling thread (0: none)
  ctRet,          \* create_tunnel's return value, per calling thread
  startIdx,       \* start_tunnels: services visited by the for loop
  success_count,  \* start_tunnels' success_count
  startLog,       \* start_tunnels: what each create_tunnel call returned
  startRet,       \* start_tunnels' return value: "none", "true", "false"
  probed,         \* test_services: local ports an HTTP request was sent to
  probeIdx,       \* test_services: services visited by the for loop
  stopIdx,        \* stop_tunnels: position of the list iterator
  stopProc,       \* stop_tunnels: the loop's process (0: none)
  stopSnap,       \* the list's content when the current stop_tunnels began
  stopsDone,      \* stop_tunnels calls that returned
  pendingFinally, \* main's finally block has not been entered yet
  precheck,       \* check_ssh_key's result: "none", "ok", "failed"
  sigCount,       \* SIGINTs delivered
  monIdx,         \* monitor_tunnels: position of the list iterator
  monI,           \* monitor_tunnels: enumerate's i
  monProc,        \* monitor_tunnels: the loop's process (0: none)
  cycleDead,      \* tracked processes that were dead when the cycle began
  cycleBase       \* processes spawned so far when the cycle began

vars == <<running, processes, procPort, alive, terminated, pc, ctPort, ctPid,
          ctRet, startIdx, success_count, startLog, startRet, probed, probeIdx, stopIdx,
          stopProc, stopSnap, stopsDone, pendingFinally, precheck, sigCount,
          monIdx, monI, monProc, cycleDead, cycleBase>>

mainVars == <<startIdx, success_count, startLog, startRet, probed, probeIdx>>
stopVars == <<stopIdx, stopProc, stopSnap, stopsDone, terminated>>
monVars == <<monIdx, monI, monProc, cycleDead, cycleBase>>
createVars == <<ctPort, ctPid, ctRet>>
procVars == <<procPort, alive>>

nextPid == Len(procPort)

Registry == {processes[k] : k \in 1..Len(processes)}

\* list.remove(x): drops the first element equal to x.
RECURSIVE RemoveFirst(_, _)
RemoveFirst(s, x) ==
  IF s = <<>> THEN <<>>
  ELSE IF Head(s) = x THEN Tail(s)
  ELSE <<Head(s)>> \o RemoveFirst(Tail(s), x)

\* ArkTunnel.__init__ and main() up to the try block.
Init ==
  /\ running = FALSE
  /\ processes = <<>>
  /\ procPort = <<>>
  /\ alive = {}
  /\ terminated = {}
  /\ pc = [t \in Threads |-> IF t = "main" THEN "precheck" ELSE "off"]
  /\ ctPort = [t \in Threads |-> 0]
  /\ ctPid = [t \in Threads |-> 0]
  /\ ctRet = [t \in Threads |-> FALSE]
  /\ startIdx = 0
  /\ success_count = 0
  /\ startLog = <<>>
  /\ startRet = "none"
  /\ probed = {}
  /\ probeIdx = 0
  /\ stopIdx = 0
  /\ stopProc = 0
  /\ stopSnap = <<>>
  /\ stopsDone = 0
  /\ pendingFinally = TRUE
  /\ precheck = "none"
  /\ sigCount = 0
  /\ monIdx = 0
  /\ monI = 0
  /\ monProc = 0
  /\ cycleDead = {}
  /\ cycleBase = 0

\* The interpreter has not exited: its threads run.
Live == pc["main"] # "exited"

\* main's finally block is entered: it calls stop_tunnels.
EnterFinally ==
  /\ pendingFinally' = FALSE
  /\ pc' = [pc EXCEPT !["main"] = "stop_begin"]

----------------------------------------------------------------------------
\* start_tunnels, first part: the precheck gate.

\* StartPrecheckFails with the early return lost: the failed precheck is
\* printed and the tunnels are started all the same.
StartPrecheckFailsIgnored ==
  /\ pc["main"] = "precheck"
  /\ precheck' = "failed"
  /\ running' = TRUE
  /\ success_count' = 0
  /\ pc' = [pc EXCEPT !["main"] = "start_loop"]
  /\ UNCHANGED <<processes, procVars, createVars, stopVars, monVars, startIdx,
                 startLog, startRet, probed, probeIdx, pendingFinally,
                 sigCount>>

\* if not self.check_ssh_key(): return False
StartPrecheckFails ==
  /\ pc["main"] = "precheck"
  /\ precheck' = "failed"
  /\ startRet' = "false"
  /\ pc' = [pc EXCEPT !["main"] = "start_ret"]
  /\ UNCHANGED <<running, processes, procVars, createVars, stopVars, monVars,
                 startIdx, success_count, startLog, probed, probeIdx,
                 pendingFinally, sigCount>>

\* self.running = True; success_count = 0
StartPrecheckOk ==
  /\ pc["main"] = "precheck"
  /\ precheck' = "ok"
  /\ running' = TRUE
  /\ success_count' = 0
  /\ pc' = [pc EXCEPT !["main"] = "start_loop"]
  /\ UNCHANGED <<processes, procVars, createVars, stopVars, monVars, startIdx,
                 startLog, startRet, probed, probeIdx, pendingFinally,
                 sigCount>>

----------------------------------------------------------------------------
\* create_tunnel(local_port, remote_port, service_name), called by thread t.

\* subprocess.Popen(cmd, ...): the forwarding process starts.
CreatePopen(t) ==
  /\ Live
  /\ pc[t] = "c_popen"
  /\ nextPid < MaxSpawns
  /\ procPort' = Append(procPort, ctPort[t])
  /\ alive' = alive \cup {nextPid + 1}
  /\ ctPid' = [ctPid EXCEPT ![t] = nextPid + 1]
  /\ pc' = [pc EXCEPT ![t] = "c_append"]
  /\ UNCHANGED <<running, processes, ctPort, ctRet, mainVars, stopVars,
                 monVars, pendingFinally, precheck, sigCount>>

\* self.processes.append(process)
CreateAppend(t) ==
  /\ Live
  /\ pc[t] = "c_append"
  /\ processes' = Append(processes, ctPid[t])
  /\ pc' = [pc EXCEPT ![t] = "c_poll"]
  /\ UNCHANGED <<running, procVars, createVars, mainVars, stopVars, monVars,
                 pendingFinally, precheck, sigCount>>

\* CreatePoll with a failed process dropped from the list before the return.
CreatePollDiscardsFailed(t) ==
  /\ Live
  /\ pc[t] = "c_poll"
  /\ ctRet' = [ctRet EXCEPT ![t] = (ctPid[t] \in alive)]
  /\ processes' = IF ctPid[t] \in alive THEN processes
                  ELSE RemoveFirst(processes, ctPid[t])
  /\ pc' = [pc EXCEPT ![t] = "c_ret"]
  /\ UNCHANGED <<running, procVars, ctPort, ctPid, mainVars, stopVars,
                 monVars, pendingFinally, precheck, sigCount>>

\* time.sleep(2); process.poll() is None: return True, else return False.
CreatePoll(t) ==
  /\ Live
  /\ pc[t] = "c_poll"
  /\ ctRet' = [ctRet EXCEPT ![t] = (ctPid[t] \in alive)]
  /\ pc' = [pc EXCEPT ![t] = "c_ret"]
  /\ UNCHANGED <<running, processes, procVars, ctPort, ctPid, mainVars,
                 stopVars, monVars, pendingFinally, precheck, sigCount>>

----------------------------------------------------------------------------
\* start_tunnels, second part: the loop over self.services and the result.

\* for local_port, config in self.services.items(): create_tunnel(...)
StartLoopNext ==
  /\ pc["main"] = "start_loop"
  /\ startIdx < NumServices
  /\ startIdx' = startIdx + 1
  /\ ctPort' = [ctPort EXCEPT !["main"] = Services[startIdx + 1]]
  /\ pc' = [pc EXCEPT !["main"] = "c_popen"]
  /\ UNCHANGED <<running, processes, procVars, ctPid, ctRet, success_count,
                 startLog, startRet, probed, probeIdx, stopVars, monVars,
                 pendingFinally, precheck, sigCount>>

\* StartLoopCount with the test of create_tunnel's result lost: every call
\* is counted.
StartLoopCountsAll ==
  /\ pc["main"] = "c_ret"
  /\ success_count' = success_count + 1
  /\ startLog' = Append(startLog, ctRet["main"])
  /\ ctPort' = [ctPort EXCEPT !["main"] = 0]
  /\ ctPid' = [ctPid EXCEPT !["main"] = 0]
  /\ ctRet' = [ctRet EXCEPT !["main"] = FALSE]
  /\ pc' = [pc EXCEPT !["main"] = "start_loop"]
  /\ UNCHANGED <<running, processes, procVars, startIdx, startRet, probed,
                 probeIdx, stopVars, monVars, pendingFinally, precheck,
                 sigCount>>

\* if self.create_tunnel(...): success_count += 1
StartLoopCount ==
  /\ pc["main"] = "c_ret"
  /\ success_count' = IF ctRet["main"] THEN success_count + 1 ELSE success_count
  /\ startLog' = Append(startLog, ctRet["main"])
  /\ ctPort' = [ctPort EXCEPT !["main"] = 0]
  /\ ctPid' = [ctPid EXCEPT !["main"] = 0]
  /\ ctRet' = [ctRet EXCEPT !["main"] = FALSE]
  /\ pc' = [pc EXCEPT !["main"] = "start_loop"]
  /\ UNCHANGED <<running, processes, procVars, startIdx, startRet, probed,
                 probeIdx, stopVars, monVars, pendingFinally, precheck,
                 sigCount>>

\* StartReturn with the test success_count == len(self.services): one failed
\* tunnel makes start_tunnels return False.
StartReturnAllOrNothing ==
  /\ pc["main"] = "start_loop"
  /\ startIdx = NumServices
  /\ startRet' = IF success_count = NumServices THEN "true" ELSE "false"
  /\ pc' = [pc EXCEPT !["main"] = "start_ret"]
  /\ UNCHANGED <<running, processes, procVars, createVars, startIdx,
                 success_count, startLog, probed, probeIdx, stopVars, monVars,
                 pendingFinally, precheck, sigCount>>

\* StartReturn with an early exit from the loop: start_tunnels returns True
\* as soon as one tunnel is up.
StartReturnEarly ==
  /\ pc["main"] = "start_loop"
  /\ (startIdx = NumServices \/ success_count > 0)
  /\ startRet' = IF success_count > 0 THEN "true" ELSE "false"
  /\ pc' = [pc EXCEPT !["main"] = "start_ret"]
  /\ UNCHANGED <<running, processes, procVars, createVars, startIdx,
                 success_count, startLog, probed, probeIdx, stopVars, monVars,
                 pendingFinally, precheck, sigCount>>

\* if success_count > 0: return True, else: return False.
StartReturn ==
  /\ pc["main"] = "start_loop"
  /\ startIdx = NumServices
  /\ startRet' = IF success_count > 0 THEN "true" ELSE "false"
  /\ pc' = [pc EXCEPT !["main"] = "start_ret"]
  /\ UNCHANGED <<running, processes, procVars, createVars, startIdx,
                 success_count, startLog, probed, probeIdx, stopVars, monVars,
                 pendingFinally, precheck, sigCount>>

----------------------------------------------------------------------------
\* main(), from the return of start_tunnels.

\* if tunnel_manager.start_tunnels(): monitor_thread.start(); time.sleep(3).
\* On False the try block is over and the finally block runs.
MainAfterStart ==
  /\ pc["main"] = "start_ret"
  /\ IF startRet = "true"
     THEN /\ pc' = [pc EXCEPT !["main"] = "test", !["mon"] = "loop"]
          /\ UNCHANGED pendingFinally
     ELSE EnterFinally
  /\ startIdx' = 0
  /\ success_count' = 0
  /\ startLog' = <<>>
  /\ startRet' = "none"
  /\ UNCHANGED <<running, processes, procVars, createVars, probed, probeIdx,
                 stopVars, monVars, precheck, sigCount>>

\* A service has a tracked handle whose process is running.
Active(local_port) ==
  \E k \in 1..Len(processes) :
    procPort[processes[k]] = local_port /\ processes[k] \in alive

\* TestServicesNext with a registry check in front of the request: a service
\* without a running tracked handle is reported without a request.
TestServicesNextActiveOnly ==
  /\ pc["main"] = "test"
  /\ probeIdx < NumServices
  /\ probeIdx' = probeIdx + 1
  /\ probed' = IF Active(Services[probeIdx + 1])
               THEN probed \cup {Services[probeIdx + 1]}
               ELSE probed
  /\ UNCHANGED <<running, processes, procVars, createVars, startIdx,
                 success_count, startLog, startRet, stopVars, monVars, pc,
                 pendingFinally, precheck, sigCount>>

\* test_services: for every configured service, urlopen(url, timeout=5); the
\* outcome (200, another status, an exception) is only printed.
TestServicesNext ==
  /\ pc["main"] = "test"
  /\ probeIdx < NumServices
  /\ probeIdx' = probeIdx + 1
  /\ probed' = probed \cup {Services[probeIdx + 1]}
  /\ UNCHANGED <<running, processes, procVars, createVars, startIdx,
                 success_count, startLog, startRet, stopVars, monVars, pc,
                 pendingFinally, precheck, sigCount>>

\* test_services returns; main prints and enters its idle loop.
TestServicesReturn ==
  /\ pc["main"] = "test"
  /\ probeIdx = NumServices
  /\ probeIdx' = 0
  /\ pc' = [pc EXCEPT !["main"] = "idle"]
  /\ UNCHANGED <<running, processes, procVars, createVars, startIdx,
                 success_count, startLog, startRet, probed, stopVars, monVars,
                 pendingFinally, precheck, sigCount>>

\* while tunnel_manager.running: time.sleep(1)
MainIdle ==
  /\ pc["main"] = "idle"
  /\ IF running
     THEN UNCHANGED <<pc, pendingFinally>>
     ELSE EnterFinally
  /\ UNCHANGED <<running, processes, procVars, createVars, mainVars, stopVars,
                 monVars, precheck, sigCount>>

----------------------------------------------------------------------------
\* stop_tunnels, called by signal_handler and by main's finally block.

\* self.running = False; the for loop over self.processes begins.
StopBegin ==
  /\ pc["main"] = "stop_begin"
  /\ running' = FALSE
  /\ stopIdx' = 0
  /\ stopProc' = 0
  /\ stopSnap' = processes
  /\ terminated' = {}
  /\ pc' = [pc EXCEPT !["main"] = "stop_iter"]
  /\ UNCHANGED <<processes, procVars, createVars, mainVars, stopsDone,
                 monVars, pendingFinally, precheck, sigCount>>

\* The list iterator yields self.processes[stopIdx]; process.terminate().
StopIter ==
  /\ pc["main"] = "stop_iter"
  /\ stopIdx < Len(processes)
  /\ stopProc' = processes[stopIdx + 1]
  /\ stopIdx' = stopIdx + 1
  /\ terminated' = terminated \cup {processes[stopIdx + 1]}
  /\ pc' = [pc EXCEPT !["main"] = "stop_wait"]
  /\ UNCHANGED <<running, processes, procVars, createVars, mainVars, stopSnap,
                 stopsDone, monVars, pendingFinally, precheck, sigCount>>

\* process.wait(timeout=5) returns, or raises TimeoutExpired and the process
\* is killed: either way the process has exited.
StopWait ==
  /\ pc["main"] = "stop_wait"
  /\ alive' = alive \ {stopProc}
  /\ stopProc' = 0
  /\ pc' = [pc EXCEPT !["main"] = "stop_iter"]
  /\ UNCHANGED <<running, processes, procPort, createVars, mainVars, stopIdx,
                 stopSnap, stopsDone, terminated, monVars, pendingFinally,
                 precheck, sigCount>>

\* The list iterator is exhausted.
StopIterEnd ==
  /\ pc["main"] = "stop_iter"
  /\ stopIdx >= Len(processes)
  /\ pc' = [pc EXCEPT !["main"] = "stop_clear"]
  /\ UNCHANGED <<running, processes, procVars, createVars, mainVars, stopVars,
                 monVars, pendingFinally, precheck, sigCount>>

\* StopClear in a main that starts over after its finally block: the last
\* stop_tunnels is followed by another start_tunnels.
StopClearRestarts ==
  /\ pc["main"] = "stop_clear"
  /\ processes' = <<>>
  /\ stopsDone' = stopsDone + 1
  /\ stopIdx' = 0
  /\ stopSnap' = <<>>
  /\ terminated' = {}
  /\ IF pendingFinally
     THEN EnterFinally
     ELSE /\ pc' = [pc EXCEPT !["main"] = "precheck"]
          /\ UNCHANGED pendingFinally
  /\ UNCHANGED <<running, procVars, createVars, mainVars, stopProc, monVars,
                 precheck, sigCount>>

\* self.processes.clear() and the return.  Returning into signal_handler,
\* sys.exit(0) raises SystemExit at the point the signal interrupted: inside
\* main's try block that is the finally block, which calls stop_tunnels again;
\* anywhere later the process exits.
StopClear ==
  /\ pc["main"] = "stop_clear"
  /\ processes' = <<>>
  /\ stopsDone' = stopsDone + 1
  /\ stopIdx' = 0
  /\ stopSnap' = <<>>
  /\ terminated' = {}
  /\ IF pendingFinally
     THEN EnterFinally
     ELSE /\ pc' = [pc EXCEPT !["main"] = "exited"]
          /\ UNCHANGED pendingFinally
  /\ UNCHANGED <<running, procVars, createVars, mainVars, stopProc, monVars,
                 precheck, sigCount>>

\* SIGINT: signal_handler runs in the main thread, wherever that thread is,
\* and calls stop_tunnels; the interrupted frames are never resumed.
Signal ==
  /\ pc["main"] # "exited"
  /\ sigCount < MaxSignals
  /\ sigCount' = sigCount + 1
  /\ pc' = [pc EXCEPT !["main"] = "stop_begin"]
  /\ ctPort' = [ctPort EXCEPT !["main"] = 0]
  /\ ctPid' = [ctPid EXCEPT !["main"] = 0]
  /\ ctRet' = [ctRet EXCEPT !["main"] = FALSE]
  /\ startIdx' = 0
  /\ success_count' = 0
  /\ startLog' = <<>>
  /\ startRet' = "none"
  /\ probeIdx' = 0
  /\ stopIdx' = 0
  /\ stopProc' = 0
  /\ stopSnap' = <<>>
  /\ terminated' = {}
  /\ UNCHANGED <<running, processes, procVars, probed, stopsDone, monVars,
                 pendingFinally, precheck>>

----------------------------------------------------------------------------
\* monitor_tunnels, run by the daemon thread.

\* list(self.services.keys())[i]
LookupPort(i) == Services[i + 1]

\* MonitorLoop with the test of self.running lost (while True): a cycle begins
\* whatever the flag says.
MonitorLoopIgnoresFlag ==
  /\ Live
  /\ pc["mon"] = "loop"
  /\ pc' = [pc EXCEPT !["mon"] = "iter"]
  /\ cycleDead' = Registry \ alive
  /\ cycleBase' = nextPid
  /\ monIdx' = 0
  /\ UNCHANGED <<running, processes, procVars, createVars, mainVars, stopVars,
                 monI, monProc, pendingFinally, precheck, sigCount>>

\* while self.running: a cycle begins (or the thread ends).
MonitorLoop ==
  /\ Live
  /\ pc["mon"] = "loop"
  /\ IF running
     THEN /\ pc' = [pc EXCEPT !["mon"] = "iter"]
          /\ cycleDead' = Registry \ alive
          /\ cycleBase' = nextPid
     ELSE /\ pc' = [pc EXCEPT !["mon"] = "done"]
          /\ UNCHANGED <<cycleDead, cycleBase>>
  /\ monIdx' = 0
  /\ UNCHANGED <<running, processes, procVars, createVars, mainVars, stopVars,
                 monI, monProc, pendingFinally, precheck, sigCount>>

\* for i, process in enumerate(self.processes): the list iterator yields
\* self.processes[monIdx]; if process.poll() is not None the port is looked up
\* by position (an IndexError ends the cycle in the except clause).
MonitorIter ==
  /\ Live
  /\ pc["mon"] = "iter"
  /\ monIdx < Len(processes)
  /\ monIdx' = monIdx + 1
  /\ LET process == processes[monIdx + 1] IN
     IF process \in alive
     THEN UNCHANGED <<pc, monI, monProc>>
     ELSE IF monIdx >= NumServices
     THEN /\ pc' = [pc EXCEPT !["mon"] = "backoff"]
          /\ UNCHANGED <<monI, monProc>>
     ELSE /\ pc' = [pc EXCEPT !["mon"] = "remove"]
          /\ monI' = monIdx
          /\ monProc' = process
  /\ UNCHANGED <<running, processes, procVars, createVars, mainVars, stopVars,
                 cycleDead, cycleBase, pendingFinally, precheck, sigCount>>

\* MonitorRemove with the removal lost: the dead handle stays in the list and
\* create_tunnel appends its replacement next to it.
MonitorRemoveKeeps ==
  /\ Live
  /\ pc["mon"] = "remove"
  /\ ctPort' = [ctPort EXCEPT !["mon"] = LookupPort(monI)]
  /\ pc' = [pc EXCEPT !["mon"] = "c_popen"]
  /\ UNCHANGED <<running, processes, procVars, ctPid, ctRet, mainVars,
                 stopVars, monVars, pendingFinally, precheck, sigCount>>

\* self.processes.remove(process) (a ValueError ends the cycle in the except
\* clause), then the call create_tunnel(local_port, ...).
MonitorRemove ==
  /\ Live
  /\ pc["mon"] = "remove"
  /\ IF monProc \in Registry
     THEN /\ processes' = RemoveFirst(processes, monProc)
          /\ ctPort' = [ctPort EXCEPT !["mon"] = LookupPort(monI)]
          /\ pc' = [pc EXCEPT !["mon"] = "c_popen"]
     ELSE /\ pc' = [pc EXCEPT !["mon"] = "backoff"]
          /\ UNCHANGED <<processes, ctPort>>
  /\ UNCHANGED <<running, procVars, ctPid, ctRet, mainVars, stopVars, monVars,
                 pendingFinally, precheck, sigCount>>

\* create_tunnel returned; its result is not used.
MonitorAfterCreate ==
  /\ Live
  /\ pc["mon"] = "c_ret"
  /\ ctPort' = [ctPort EXCEPT !["mon"] = 0]
  /\ ctPid' = [ctPid EXCEPT !["mon"] = 0]
  /\ ctRet' = [ctRet EXCEPT !["mon"] = FALSE]
  /\ monI' = 0
  /\ monProc' = 0
  /\ pc' = [pc EXCEPT !["mon"] = "iter"]
  /\ UNCHANGED <<running, processes, procVars, mainVars, stopVars, monIdx,
                 cycleDead, cycleBase, pendingFinally, precheck, sigCount>>

\* The list iterator is exhausted: time.sleep(10) follows.
MonitorIterEnd ==
  /\ Live
  /\ pc["mon"] = "iter"
  /\ monIdx >= Len(processes)
  /\ pc' = [pc EXCEPT !["mon"] = "sleep"]
  /\ UNCHANGED <<running, processes, procVars, createVars, mainVars, stopVars,
                 monVars, pendingFinally, precheck, sigCount>>

\* The sleep is over (10 s after a full cycle, 5 s in the except clause).
MonitorWake ==
  /\ Live
  /\ pc["mon"] \in {"sleep", "backoff"}
  /\ pc' = [pc EXCEPT !["mon"] = "loop"]
  /\ monIdx' = 0
  /\ monI' = 0
  /\ monProc' = 0
  /\ cycleDead' = {}
  /\ cycleBase' = 0
  /\ UNCHANGED <<running, processes, procVars, createVars, mainVars, stopVars,
                 pendingFinally, precheck, sigCount>>

----------------------------------------------------------------------------
\* The environment: a forwarding process exits (the connection drops, the
\* port cannot be bound, it is killed from outside).
Die ==
  \E p \in alive :
    /\ alive' = alive \ {p}
    /\ UNCHANGED <<running, processes, procPort, pc, createVars, mainVars,
                   stopVars, monVars, pendingFinally, precheck, sigCount>>

Next ==
  \/ StartPrecheckFails
  \/ StartPrecheckOk
  \/ StartLoopNext
  \/ StartLoopCount
  \/ StartReturn
  \/ \E t \in Threads : CreatePopen(t)
  \/ \E t \in Threads : CreateAppend(t)
  \/ \E t \in Threads : CreatePoll(t)
  \/ MainAfterStart
  \/ TestServicesNext
  \/ TestServicesReturn
  \/ MainIdle
  \/ StopBegin
  \/ StopIter
  \/ StopWait
  \/ StopIterEnd
  \/ StopClear
  \/ Signal
  \/ MonitorLoop
  \/ MonitorIter
  \/ MonitorRemove
  \/ MonitorAfterCreate
  \/ MonitorIterEnd
  \/ MonitorWake
  \/ Die

Spec == Init /\ [][Next]_vars

----------------------------------------------------------------------------
\* Errors raised by the calls the handlers make.  The except clauses of
\* monitor_tunnels and stop_tunnels decide where each one lands.

\* process.poll() raises in the monitor's for loop: the try statement encloses
\* the whole loop, so control leaves the loop for the except clause, which
\* prints the error and sleeps 5 s.
MonitorPollRaises ==
  /\ Live
  /\ pc["mon"] = "iter"
  /\ monIdx < Len(processes)
  /\ monIdx' = monIdx + 1
  /\ pc' = [pc EXCEPT !["mon"] = "backoff"]
  /\ UNCHANGED <<running, processes, procVars, createVars, mainVars, stopVars,
                 monI, monProc, cycleDead, cycleBase, pendingFinally, precheck,
                 sigCount>>

\* process.terminate() raises: the except Exception clause inside the for
\* loop of stop_tunnels prints it and the loop goes on; wait is skipped.
StopTerminateRaises ==
  /\ pc["main"] = "stop_iter"
  /\ stopIdx < Len(processes)
  /\ stopIdx' = stopIdx + 1
  /\ UNCHANGED <<running, processes, procVars, createVars, mainVars, stopProc,
                 stopSnap, stopsDone, terminated, monVars, pc, pendingFinally,
                 precheck, sigCount>>

\* process.wait(timeout=5) raises something other than TimeoutExpired: the
\* except Exception clause prints it and the loop goes on.
StopWaitRaises ==
  /\ pc["main"] = "stop_wait"
  /\ stopProc' = 0
  /\ pc' = [pc EXCEPT !["main"] = "stop_iter"]
  /\ UNCHANGED <<running, processes, procVars, createVars, mainVars, stopIdx,
                 stopSnap, stopsDone, terminated, monVars, pendingFinally,
                 precheck, sigCount>>

\* The process outlives the 5 s and process.kill() raises.  kill is called in
\* the except TimeoutExpired clause, which the sibling except Exception clause
\* does not guard: the exception leaves stop_tunnels before the remaining
\* handles are visited and before self.processes.clear().  Called from
\* signal_handler inside main's try block, it is caught by main's except
\* Exception and the finally block follows; called from the finally block, it
\* leaves main and the process exits.
StopKillRaises ==
  /\ pc["main"] = "stop_wait"
  /\ stopProc \in alive
  /\ stopIdx' = 0
  /\ stopProc' = 0
  /\ stopSnap' = <<>>
  /\ terminated' = {}
  /\ IF pendingFinally
     THEN EnterFinally
     ELSE /\ pc' = [pc EXCEPT !["main"] = "exited"]
          /\ UNCHANGED pendingFinally
  /\ UNCHANGED <<running, processes, procVars, createVars, mainVars, stopsDone,
                 monVars, precheck, sigCount>>

NextFaults ==
  \/ Next
  \/ MonitorPollRaises
  \/ StopTerminateRaises
  \/ StopWaitRaises
  \/ StopKillRaises

\* The program with those errors possible.
SpecFaults == Init /\ [][NextFaults]_vars

----------------------------------------------------------------------------
\* The steps of the monitor thread.
MonitorStep ==
  \/ MonitorLoop
  \/ MonitorIter
  \/ MonitorRemove
  \/ CreatePopen("mon")
  \/ CreateAppend("mon")
  \/ CreatePoll("mon")
  \/ MonitorAfterCreate
  \/ MonitorIterEnd
  \/ MonitorWake

\* The monitor thread is scheduled: its sleeps end, its calls return and the
\* interpreter hands it the lock, for as long as the process lives.
SpecFair == Spec /\ WF_vars(MonitorStep)

----------------------------------------------------------------------------
\* The shape of the state.
TypeOK ==
  /\ running \in BOOLEAN
  /\ processes \in Seq(Pids)
  /\ procPort \in Seq({Services[k] : k \in 1..NumServices})
  /\ nextPid <= MaxSpawns
  /\ alive \subseteq 1..nextPid
  /\ terminated \subseteq 1..nextPid
  /\ pc["main"] \in {"precheck", "start_loop", "c_popen", "c_append", "c_poll",
                     "c_ret", "start_ret", "test", "idle", "stop_begin",
                     "stop_iter", "stop_wait", "stop_clear", "exited"}
  /\ pc["mon"] \in {"off", "loop", "iter", "remove", "c_popen", "c_append",
                    "c_poll", "c_ret", "sleep", "backoff", "done"}
  /\ stopsDone \in 0..(MaxSignals + 1)
  /\ sigCount \in 0..MaxSignals

ServicePorts == {Services[k] : k \in 1..NumServices}

----------------------------------------------------------------------------
\* C1: the registry holds at most one handle per local_port: no two entries
\* of self.processes forward the same local port.
C1_OneHandlePerPort ==
  \A i, j \in 1..Len(processes) :
    i # j => procPort[processes[i]] # procPort[processes[j]]

\* C2: the respawn the monitor issues for a process it found dead is for the
\* service (local port and remote port) that process was forwarding.
C2_RespawnSameService ==
  (pc["mon"] \in {"c_popen", "c_append", "c_poll", "c_ret"}) =>
    /\ ctPort["mon"] = procPort[monProc]
    /\ Remote(ctPort["mon"]) = Remote(procPort[monProc])

\* C3: once running is false no forwarding process is created, no handle is
\* added to the registry, and the registry only shrinks.
C3_ShutdownOnlyShrinks ==
  [][(~running) =>
       /\ nextPid' = nextPid
       /\ Registry' \subseteq Registry
       /\ Len(processes') <= Len(processes)]_vars

\* C4: a monitor cycle that runs to its end while running is true has removed
\* every handle that was dead when it began and has started a new process for
\* the service of each.
C4_DeadRespawnedWithinCycle ==
  (pc["mon"] = "sleep" /\ running) =>
    \A p \in cycleDead :
      /\ p \notin Registry
      /\ \E q \in (cycleBase + 1)..nextPid : procPort[q] = procPort[p]

C6_StopTerminatesAllTracked ==
  [][(stopsDone' # stopsDone) =>
       /\ \A k \in 1..Len(stopSnap) :
            stopSnap[k] \in terminated /\ stopSnap[k] \notin alive'
       /\ processes' = <<>>]_vars

\* C7: a stop_tunnels call that follows a completed one changes nothing: while
\* it runs the registry is empty, running is false and it has called
\* terminate() on no process.
C7_SecondStopIsNoop ==
  (stopsDone >= 1 /\ pc["main"] \in {"stop_iter", "stop_wait", "stop_clear"}) =>
    /\ processes = <<>>
    /\ terminated = {}
    /\ ~running

\* The services whose create_tunnel call in start_tunnels returned False.
StartFailed == {Services[k] : k \in {n \in 1..Len(startLog) : ~startLog[n]}}

\* C8: when start_tunnels returns after a successful precheck it has called
\* create_tunnel exactly once for every service, in order; success_count is
\* the number of calls that returned True, the failed services are the others,
\* and the result is True iff success_count > 0.
C8_StartAllCounts ==
  (pc["main"] = "start_ret" /\ precheck = "ok") =>
    /\ procPort = Services
    /\ Len(startLog) = NumServices
    /\ success_count = Cardinality({k \in 1..Len(startLog) : startLog[k]})
    /\ Cardinality(StartFailed) = NumServices - success_count
    /\ (startRet = "true") <=> (success_count > 0)
    /\ startRet \in {"true", "false"}

\* C8 witness: exactly one of the three spawns failed and the start is
\* reported successful with success_count = 2.
C8_Witness ==
  /\ pc["main"] = "start_ret"
  /\ startLog = <<TRUE, FALSE, TRUE>>
  /\ success_count = 2
  /\ startRet = "true"

\* C9: after a failed precheck no forwarding process is ever spawned, the
\* registry stays empty, running never becomes true, and neither the monitor
\* thread nor test_services is started.
C9_PrecheckFailureAborts ==
  (precheck = "failed") =>
    /\ nextPid = 0
    /\ processes = <<>>
    /\ ~running
    /\ pc["mon"] = "off"
    /\ probed = {}
    /\ pc["main"] \notin {"start_loop", "c_popen", "c_append", "c_poll",
                          "c_ret", "test", "idle"}

\* C9 witness: the precheck failed and the run went on to its end.
C9_Witness ==
  precheck = "failed" /\ pc["main"] = "exited" /\ stopsDone >= 1

C11_EveryStartingDeadDetected ==
  (pc["mon"] = "sleep" /\ running) => (cycleDead \cap Registry = {})

\* C12: within one monitor cycle a handle created by a respawn of that cycle
\* is not sampled and respawned again: the process the monitor is replacing
\* was spawned before the cycle began.
C12_RespawnNotResampled ==
  (pc["mon"] = "remove") => (monProc <= cycleBase)

\* C13: an error raised for one handle in a monitor cycle does not abort the
\* cycle for the remaining handles: whenever the monitor is in its except
\* clause, no handle of the list was left unvisited by the cycle.
C13_ErrorKeepsCycle ==
  (pc["mon"] = "backoff") => (monIdx >= Len(processes))

\* C14: a failure while terminating one handle does not abort the teardown:
\* a call of stop_tunnels that is not interrupted by a signal ends only by
\* clearing the registry and returning.
C14_TeardownNotAborted ==
  [][(/\ pc["main"] \in {"stop_iter", "stop_wait", "stop_clear"}
      /\ pc'["main"] \in {"stop_begin", "exited"}
      /\ sigCount' = sigCount)
     => (stopsDone' = stopsDone + 1 /\ processes' = <<>>)]_vars

\* C15: the monitor begins a cycle only when it reads running true, no step
\* of the monitor changes running, and once running is false a monitor that
\* keeps being scheduled ends its loop (unless the process exits first, which
\* ends the daemon thread, or the model's spawn bound stops it inside
\* create_tunnel).
C15_MonitorStopsAfterShutdown ==
  /\ [][(pc["mon"] = "loop" /\ pc'["mon"] = "iter") => running]_vars
  /\ [][(pc'["mon"] # pc["mon"] \/ monIdx' # monIdx) => (running' = running)]_vars
  /\ (~running /\ pc["mon"] # "off")
       ~> \/ pc["mon"] = "done"
          \/ ~Live
          \/ (pc["mon"] = "c_popen" /\ nextPid = MaxSpawns)

\* The monitor has read running false at a loop boundary and ended while the
\* process is still shutting down.
C15_Witness ==
  pc["mon"] = "done" /\ ~running /\ Live

\* C16: running goes from false to true only in start_tunnels (which main
\* enters once and never re-enters) and from true to false only at the head
\* of stop_tunnels: at most one true-to-false transition, and no false-to-true
\* transition after it, whether the signal handler, the finally block or both
\* call stop_tunnels.
C16_RunningNeverReset ==
  [][/\ (~running /\ running') => (pc["main"] = "precheck")
     /\ (running /\ ~running') => (pc["main"] = "stop_begin")
     /\ (pc["main"] # "precheck") => (pc'["main"] # "precheck")]_vars

\* Startup set running, the signal handler and then the finally block both
\* called stop_tunnels, and running is false.
C16_Witness ==
  precheck = "ok" /\ sigCount = 1 /\ stopsDone = 2 /\ ~running

\* C17: test_services runs only after start_tunnels called create_tunnel for
\* every service, in the order of self.services; the monitor thread exists
\* only after start_tunnels passed its precheck; and a probe is issued only
\* by a main thread that is inside test_services, with no create_tunnel call
\* of its own pending.
C17_ProbeAfterStartAll ==
  /\ [](((pc["main"] = "test") \/ (probed # {}))
         => /\ nextPid >= NumServices
            /\ SubSeq(procPort, 1, NumServices) = Services)
  /\ []((pc["mon"] # "off") => (precheck = "ok"))
  /\ [][(probed' # probed)
         => /\ pc["main"] = "test"
            /\ ctPort["main"] = 0
            /\ startIdx = 0]_vars

\* A probe has been issued while the monitor, started before test_services,
\* is inside a create_tunnel call of its own.
C17_Witness ==
  pc["main"] = "test" /\ probeIdx = 1 /\ pc["mon"] = "c_append"

\* The main thread is in stop_tunnels or has left main.
ShuttingDown ==
  pc["main"] \in {"stop_begin", "stop_iter", "stop_wait", "stop_clear", "exited"}

\* C18: only a failed precheck ends the run by itself: when the precheck
\* succeeded and no signal arrived, main is never shutting down, however many
\* spawns failed.
C18_OnlyPrecheckFatal ==
  (precheck = "ok" /\ sigCount = 0) => ~ShuttingDown

\* C18 (amended): with a successful precheck and no signal, the run ends by
\* itself exactly when every spawn of start_tunnels failed: then no process is
\* running, the monitor was never started and main goes to stop_tunnels.  With
\* at least one tunnel up start_tunnels returns True, and past that return
\* the monitor is running.
C18_FatalOnlyWithNoTunnel ==
  /\ (precheck = "ok" /\ sigCount = 0 /\ ShuttingDown)
       => (pc["mon"] = "off" /\ nextPid = NumServices /\ alive = {})
  /\ (pc["main"] = "start_ret" /\ precheck = "ok")
       => (startRet = "true" <=> \E k \in 1..Len(startLog) : startLog[k])
  /\ (pc["main"] \in {"test", "idle"}) => (pc["mon"] # "off")

\* Every spawn failed after a successful precheck, no signal arrived, and
\* main has shut down without a monitor.
C18_Witness ==
  precheck = "ok" /\ sigCount = 0 /\ pc["main"] = "exited" /\ pc["mon"] = "off"

\* C19: the process list never holds more entries than there are services,
\* so list(self.services.keys())[i] is never out of range: the monitor
\* reaches its except clause only from self.processes.remove (monProc is the
\* handle it failed to remove), never from the lookup.
C19_ListWithinServices ==
  /\ Len(processes) <= NumServices
  /\ (pc["mon"] = "iter") => (monIdx <= NumServices)
  /\ (pc["mon"] = "backoff") => (monProc # 0 /\ monProc \notin Registry)

\* The list is full again after the monitor removed a dead handle and
\* appended its replacement.
C19_Witness ==
  /\ Len(processes) = NumServices
  /\ pc["mon"] = "c_poll"
  /\ processes[NumServices] = ctPid["mon"]

\* C20: no orphaned tunnels: once the monitor has been started, whatever the
\* interleaving of its cycle with stop_tunnels, no forwarding process the
\* program spawned is running after the last call of stop_tunnels has
\* returned and main is over.
C20_NoOrphanAfterShutdown ==
  (pc["main"] = "exited" /\ pc["mon"] # "off") => (alive = {})
====
